---- MODULE Spec2Model ----
(***************************************************************************)
(* Word ladder search of src/main.rs: a word of lowercase letters packed   *)
(* into a u64 (5 bits per letter, first letter in the low bits), the four  *)
(* operators on that packing, and the breadth-first search of print_path.  *)
(*                                                                         *)
(* A u64 is modelled as its 13 base-32 digits, least significant first:    *)
(* digits 1..12 are the twelve 5-bit fields (bits 0..59), digit 13 holds   *)
(* the four bits 60..63.  Every shift in the source is by a multiple of 5  *)
(* bits, so a shift moves whole digits; bits pushed above bit 63 are lost. *)
(* A &str is modelled as the sequence of its bytes.                        *)
(***************************************************************************)
EXTENDS Integers, Sequences, FiniteSets, TLC

\* ------------------------------------------------------------------ u64

BITS == 64
FIELD == 5
NDIGITS == (BITS + FIELD - 1) \div FIELD

Digits == 1..NDIGITS

\* Largest value of digit i: 31 for a full field, 15 for bits 60..63.
DigitMax(i) == IF i = NDIGITS THEN 15 ELSE 31

Bit(a, k) == (a \div (2 ^ k)) % 2

AndTable ==
  [a \in 0..31 |-> [b \in 0..31 |->
      Bit(a, 0) * Bit(b, 0) + 2 * Bit(a, 1) * Bit(b, 1) + 4 * Bit(a, 2) * Bit(b, 2)
      + 8 * Bit(a, 3) * Bit(b, 3) + 16 * Bit(a, 4) * Bit(b, 4)]]

\* a | b == a + b - (a & b)
OrTable == [a \in 0..31 |-> [b \in 0..31 |-> a + b - AndTable[a][b]]]

\* The u64 values.
U64 == [Digits -> 0..31]

U64Zero == [i \in Digits |-> 0]

\* A small non-negative integer as a u64.
U64From(v) == [i \in Digits |-> IF i <= 7 THEN (v \div (32 ^ (i - 1))) % 32 ELSE 0]

\* The low 8 bits of a u64 (`as u8`).
AsU8[a \in U64] == a[1] + 32 * (a[2] % 8)

\* a & b, a | b and !a.  (Functions, so that an argument is evaluated once.)
U64And[a \in U64, b \in U64] == [i \in Digits |-> AndTable[a[i]][b[i]]]
U64Or[a \in U64, b \in U64] == [i \in Digits |-> OrTable[a[i]][b[i]]]
U64Not[a \in U64] == [i \in Digits |-> DigitMax(i) - a[i]]

\* a << bits and a >> bits, for bits a multiple of 5 below 64.
U64Shl[a \in U64, bits \in 0..(BITS - 1)] ==
  [i \in Digits |-> IF i - (bits \div FIELD) >= 1
                    THEN a[i - (bits \div FIELD)] % (DigitMax(i) + 1) ELSE 0]

U64Shr[a \in U64, bits \in 0..(BITS - 1)] ==
  [i \in Digits |-> IF i + (bits \div FIELD) <= NDIGITS THEN a[i + (bits \div FIELD)] ELSE 0]

\* Number of bits needed to write the digit d (0 for d = 0).
DigitBits(d) ==
  IF d = 0 THEN 0 ELSE IF d < 2 THEN 1 ELSE IF d < 4 THEN 2
  ELSE IF d < 8 THEN 3 ELSE IF d < 16 THEN 4 ELSE 5

\* u64::leading_zeros
leading_zeros[a \in U64] ==
  IF a = U64Zero THEN BITS
  ELSE LET top == CHOOSE i \in Digits : a[i] # 0 /\ \A j \in Digits : j > i => a[j] = 0
       IN  BITS - (FIELD * (top - 1) + DigitBits(a[top]))

\* ------------------------------------------------------------------ Word

None == <<>>
Some(w) == <<w>>

\* The value standing for a panic of NonZeroU64::new(0).unwrap().
RawPanic == <<0 - 1>>

ByteA == 97
ByteZ == 122

\* Word::raw
raw[val \in U64] == IF val = U64Zero THEN RawPanic ELSE val

\* Mutant of new_panics: the check against the capacity of a u64 is missing.
new_panics_no_capacity(from) ==
  \/ Len(from) = 0
  \/ \E i \in 1..Len(from) : from[i] >= 128
  \/ \E i \in 1..Len(from) : from[i] < ByteA \/ from[i] > ByteZ

\* Word::new panics on these strings.
new_panics(from) ==
  \/ Len(from) = 0
  \/ \E i \in 1..Len(from) : from[i] >= 128
  \/ Len(from) > BITS \div FIELD
  \/ \E i \in 1..Len(from) : from[i] < ByteA \/ from[i] > ByteZ

\* The loop of Word::new from index idx (0-based) on, accumulating into w.
RECURSIVE new_loop(_, _, _)
new_loop(from, idx, w) ==
  IF idx >= Len(from) THEN w
  ELSE new_loop(from, idx + 1,
                U64Or[w, U64Shl[U64From(from[idx + 1] - ByteA + 1), idx * FIELD]])

\* Word::new, on a string it does not panic on.
Word_new(from) == raw[new_loop(from, 0, U64Zero)]

\* impl fmt::Debug for Word: the bytes written.
RECURSIVE fmt_loop(_, _)
fmt_loop(w, acc) ==
  IF w = U64Zero THEN acc
  ELSE LET masked == AsU8[U64And[w, U64From(31)]]
       IN  fmt_loop(U64Shr[w, FIELD], Append(acc, masked + ByteA - 1))

\* Mutant of fmt: the letters are written from the most significant field down.
fmt_msb_first(word) ==
  LET s == fmt_loop(word, <<>>) IN [i \in 1..Len(s) |-> s[Len(s) + 1 - i]]

fmt(word) == fmt_loop(word, <<>>)

\* Mutant of len: the bit length is divided by 5 rounding down.
len_floor(word) ==
  LET first_bit_set == BITS - leading_zeros[word]
  IN  first_bit_set \div FIELD

\* Word::len
len(word) ==
  LET first_bit_set == BITS - leading_zeros[word] + (FIELD - 1)
  IN  first_bit_set \div FIELD

\* Mutant of dupl_first: the cap is compared with > instead of >=.
dupl_first_gt(word, len_limit) ==
  IF len(word) > len_limit THEN None
  ELSE LET s == U64And[word, U64From(31)]
       IN  Some(raw[U64Or[U64Shl[word, FIELD], s]])

\* Word::dupl_first
dupl_first(word, len_limit) ==
  IF len(word) >= len_limit THEN None
  ELSE LET s == U64And[word, U64From(31)]
       IN  Some(raw[U64Or[U64Shl[word, FIELD], s]])

\* Mutant of pop: the emptiness check comes before the shift, on the whole word.
pop_check_first(word) ==
  IF word = U64Zero THEN None ELSE Some(raw[U64Shr[word, FIELD]])

\* Word::pop
pop(word) ==
  LET w == U64Shr[word, FIELD]
  IN  IF w = U64Zero THEN None ELSE Some(raw[w])

\* Mutant of rotate: the field above the word is not cleared in the right rotation.
rotate_no_clear(word) ==
  LET mask == U64From(31)
      l == len(word)
      last == (l - 1) * FIELD
      start == U64And[word, mask]
      end == U64Shr[U64And[word, U64Shl[mask, last]], last]
      right == U64Shr[word, FIELD]
      left == U64Shl[word, FIELD]
  IN  IF l = 1 THEN <<None, None>>
      ELSE <<Some(raw[U64Or[right, U64Shl[start, last]]]),
             Some(raw[U64Or[left, end]])>>

\* Mutant of rotate: both results are the left rotation.
rotate_left_twice(word) ==
  LET mask == U64From(31)
      l == len(word)
      last == (l - 1) * FIELD
      start == U64And[word, mask]
      right == U64Shr[word, FIELD]
  IN  IF l = 1 THEN <<None, None>>
      ELSE <<Some(raw[U64Or[right, U64Shl[start, last]]]),
             Some(raw[U64Or[right, U64Shl[start, last]]])>>

\* Word::rotate
rotate(word) ==
  LET mask == U64From(31)
      l == len(word)
      last == (l - 1) * FIELD
      start == U64And[word, mask]
      end == U64Shr[U64And[word, U64Shl[mask, last]], last]
      right == U64Shr[word, FIELD]
      left == U64And[U64Shl[word, FIELD], U64Not[U64Shl[mask, l * FIELD]]]
  IN  IF l = 1 THEN <<None, None>>
      ELSE <<Some(raw[U64Or[right, U64Shl[start, last]]]),
             Some(raw[U64Or[left, end]])>>

\* Mutant of shifts_loop: the increment of 'z' does not wrap to 'a'.
RECURSIVE shifts_loop_no_wrap(_, _, _)
shifts_loop_no_wrap(us, i, ret) ==
  IF i >= 6 THEN ret
  ELSE LET shift == i * FIELD
           rest[c \in 0..255, w \in U64] ==
             LET up == c + 1
                 down == IF c - 1 = 0 THEN 26 ELSE c - 1
             IN  IF c = 0 THEN ret
                 ELSE shifts_loop_no_wrap(us, i + 1,
                        [ret EXCEPT ![i + 1] = Some(raw[U64Or[w, U64Shl[U64From(up), shift]]]),
                                    ![i + 7] = Some(raw[U64Or[w, U64Shl[U64From(down), shift]]])])
           body[mask \in U64] ==
             rest[AsU8[U64Shr[U64And[us, mask], shift]], U64And[us, U64Not[mask]]]
       IN  body[U64Shl[U64From(31), shift]]

\* Word::shifts: the loop from position i (0-based) on, filling ret.  The
\* locals mask, c and w are arguments of local functions, so that each is
\* computed once per iteration, as in the source.
RECURSIVE shifts_loop(_, _, _)
shifts_loop(us, i, ret) ==
  IF i >= 6 THEN ret
  ELSE LET shift == i * FIELD
           rest[c \in 0..255, w \in U64] ==
             LET up == IF c + 1 = 27 THEN 1 ELSE c + 1
                 down == IF c - 1 = 0 THEN 26 ELSE c - 1
             IN  IF c = 0 THEN ret
                 ELSE shifts_loop(us, i + 1,
                        [ret EXCEPT ![i + 1] = Some(raw[U64Or[w, U64Shl[U64From(up), shift]]]),
                                    ![i + 7] = Some(raw[U64Or[w, U64Shl[U64From(down), shift]]])])
           body[mask \in U64] ==
             rest[AsU8[U64Shr[U64And[us, mask], shift]], U64And[us, U64Not[mask]]]
       IN  body[U64Shl[U64From(31), shift]]

\* Mutant of shifts: the increments and the decrements have changed slots.
shifts_swapped(word) ==
  LET r == shifts_loop(word, 0, [j \in 1..12 |-> None])
  IN  [j \in 1..12 |-> r[((j + 5) % 12) + 1]]

shifts(word) == shifts_loop(word, 0, [j \in 1..12 |-> None])

\* ------------------------------------------------------------------ print_path

VARIABLES
  pc,         \* position in print_path: "start", "expand", "walk", "log", "done", "panicked"
  left,       \* the start string
  right,      \* the target string
  starter,    \* Word::new(left)
  target,     \* Word::new(right)
  m,          \* the visited map: word -> the word it was first reached from
  len_limit,  \* the length cap passed to dupl_first
  new_words,  \* the frontier
  it,         \* the loop variable of `for it in 1..32u8`; after the loop, its last value
  path,       \* the path vector
  curr,       \* the cursor of the predecessor walk
  logged,     \* what log() was given: <<path.len(), path>>, or <<>> before
  ostr,       \* operator run: the string given to Word::new
  x,          \* operator run: the current word
  calls       \* operator run: the calls made so far, [op, arg, lim, out] each

searchVars == <<pc, left, right, starter, target, m, len_limit, new_words, it, path, curr, logged>>
opVars == <<ostr, x, calls>>
vars == <<pc, left, right, starter, target, m, len_limit, new_words, it, path, curr, logged,
          ostr, x, calls>>

EmptyMap == <<>>

Max(a, b) == IF a >= b THEN a ELSE b

Reverse(s) == [i \in 1..Len(s) |-> s[Len(s) + 1 - i]]

\* Mutant of appl: the word is pushed on the frontier whether or not the entry
\* was vacant.
appl_push_always(st, k, res) ==
  IF res = None THEN st
  ELSE LET word == res[1]
       IN  IF word = RawPanic THEN [st EXCEPT !.panicked = TRUE]
           ELSE IF word \in DOMAIN st.m
                THEN [st EXCEPT !.new_words = Append(st.new_words, word)]
           ELSE [st EXCEPT !.m = (word :> k) @@ st.m,
                           !.new_words = Append(st.new_words, word)]

\* Mutant of appl: an occupied entry is overwritten with the new predecessor.
appl_overwrite(st, k, res) ==
  IF res = None THEN st
  ELSE LET word == res[1]
       IN  IF word = RawPanic THEN [st EXCEPT !.panicked = TRUE]
           ELSE IF word \in DOMAIN st.m THEN [st EXCEPT !.m = (word :> k) @@ st.m]
           ELSE [st EXCEPT !.m = (word :> k) @@ st.m,
                           !.new_words = Append(st.new_words, word)]

\* The closure appl of print_path, on the pair st of m and new_words, for the
\* frontier word k and one operator result.
appl(st, k, res) ==
  IF res = None THEN st
  ELSE LET word == res[1]
       IN  IF word = RawPanic THEN [st EXCEPT !.panicked = TRUE]
           ELSE IF word \in DOMAIN st.m THEN st
           ELSE [st EXCEPT !.m = (word :> k) @@ st.m,
                           !.new_words = Append(st.new_words, word)]

\* Mutant of results: dupl_first is given a cap one above len_limit.
results_cap_plus_one(k, limit) ==
  <<dupl_first(k, limit + 1), pop(k)>> \o shifts(k) \o rotate(k)

\* The operator results of one frontier word, in the order print_path applies them.
results(k, limit) == <<dupl_first(k, limit), pop(k)>> \o shifts(k) \o rotate(k)

\* The calls of appl on the results from index i on.  Each intermediate state is
\* bound as a value (s) before the next call reads it.
RECURSIVE appl_all(_, _, _, _)
appl_all(st, k, ress, i) ==
  IF i > Len(ress) THEN st
  ELSE CHOOSE r \in {appl_all(s, k, ress, i + 1) : s \in {appl(st, k, ress[i])}} : TRUE

\* The body of `for k in old_words` for one word k.
expand_word(st, k, limit) ==
  CHOOSE r \in {appl_all(st, k, ress, 1) : ress \in {results(k, limit)}} : TRUE

\* The loop `for k in old_words` over the indices lo..hi, in order: the first
\* half of the range, then the second half on the state the first half left.
\* A panic of Word::raw ends the loop.
RECURSIVE expand_loop(_, _, _, _, _)
expand_loop(st, old_words, limit, lo, hi) ==
  IF st.panicked \/ lo > hi THEN st
  ELSE IF lo = hi THEN expand_word(st, old_words[lo], limit)
  ELSE CHOOSE r \in {expand_loop(s, old_words, limit, ((lo + hi) \div 2) + 1, hi) :
                       s \in {expand_loop(st, old_words, limit, lo, (lo + hi) \div 2)}} : TRUE

\* Mutant of expand: new_words is not cleared, the frontier keeps the old words.
expand_no_clear(map, old_words, limit) ==
  expand_loop([m |-> map, new_words |-> old_words, panicked |-> FALSE],
              old_words, limit, 1, Len(old_words))

\* One iteration of `for it in 1..32u8`, up to the check for the target.
expand(map, old_words, limit) ==
  expand_loop([m |-> map, new_words |-> <<>>, panicked |-> FALSE],
              old_words, limit, 1, Len(old_words))

\* The loop bound of `for it in 1..32u8`.
ItEnd == 32

OpIdle == UNCHANGED opVars

\* Word::new panics on left or on right (lines 147-148).
Panic ==
  /\ pc = "start"
  /\ new_panics(left) \/ new_panics(right)
  /\ pc' = "panicked"
  /\ UNCHANGED <<left, right, starter, target, m, len_limit, new_words, it, path, curr, logged>>
  /\ OpIdle

\* Lines 147-153: both words encode; the map and the frontier are seeded.
Seed ==
  /\ pc = "start"
  /\ ~new_panics(left) /\ ~new_panics(right)
  /\ starter' = Word_new(left)
  /\ target' = Word_new(right)
  /\ m' = (Word_new(left) :> Word_new(left))
  /\ len_limit' = Max(Len(left), Len(right))
  /\ new_words' = <<Word_new(left)>>
  /\ it' = 1
  /\ pc' = "expand"
  /\ UNCHANGED <<left, right, path, curr, logged>>
  /\ OpIdle

\* Lines 154-187: one iteration of the expansion loop; when the loop ends (the
\* target is in the map, or it has run through 1..32) the walk is set up.
Expand ==
  /\ pc = "expand"
  /\ \E st \in {expand(m, new_words, len_limit)} :
     LET found == target \in DOMAIN st.m
         over == found \/ it + 1 >= ItEnd
     IN  IF st.panicked
         THEN /\ pc' = "panicked"
              /\ UNCHANGED <<m, new_words, it, path, curr>>
         ELSE /\ m' = st.m
              /\ new_words' = st.new_words
              /\ it' = IF over THEN it ELSE it + 1
              /\ pc' = IF over THEN "walk" ELSE "expand"
              /\ path' = IF over THEN <<target>> ELSE path
              /\ curr' = IF over THEN target ELSE curr
  /\ UNCHANGED <<left, right, starter, target, len_limit, logged>>
  /\ OpIdle

\* Lines 188-194: one iteration of `while let Some(word) = m.get(&curr)`.
Walk ==
  /\ pc = "walk"
  /\ IF curr \in DOMAIN m
     THEN /\ path' = Append(path, m[curr])
          /\ IF m[curr] = starter
             THEN pc' = "log" /\ curr' = curr
             ELSE pc' = "walk" /\ curr' = m[curr]
     ELSE pc' = "log" /\ UNCHANGED <<path, curr>>
  /\ UNCHANGED <<left, right, starter, target, m, len_limit, new_words, it, logged>>
  /\ OpIdle

\* Lines 196-202: the path is reversed and logged with its length.
Log ==
  /\ pc = "log"
  /\ path' = Reverse(path)
  /\ logged' = <<Len(path), Reverse(path)>>
  /\ pc' = "done"
  /\ UNCHANGED <<left, right, starter, target, m, len_limit, new_words, it, curr>>
  /\ OpIdle

\* ------------------------------------------------------------------ inputs

\* The letters the start and target strings are built from: 'a', 'n', 'z', 'b'.
LetterSeq == <<ByteA, 110, ByteZ, 98>>

\* How many letters of LetterSeq are used.
NLetters == 2

\* The bytes of the strings: the letters, and two bytes Word::new rejects, 'A'
\* and the non-ASCII byte 200.
SampleBytes == {LetterSeq[j] : j \in 1..NLetters} \cup {65, 200}

\* The lengths of the strings taken exhaustively: with words of up to two
\* letters a search runs over the 702 words of that length.
ShortLens == 0..2

Strings == UNION {[1..k -> SampleBytes] : k \in ShortLens}

Rep(c, n) == [i \in 1..n |-> c]

\* Pairs of longer strings: equal 12-letter words, 13 letters (over capacity) on
\* either side, and 7-letter words two operator steps apart.
LongInputs ==
  { <<Rep(ByteA, 12), Rep(ByteA, 12)>>,
    <<Rep(ByteA, 13), <<ByteA>>>>,
    <<<<ByteA>>, Rep(ByteZ, 13)>>,
    <<Rep(ByteA, 7), [Rep(ByteA, 7) EXCEPT ![7] = 98]>> }

Inputs == (Strings \X Strings) \cup LongInputs

OpInitIdle == ostr = <<>> /\ x = None /\ calls = <<>>

Init ==
  /\ pc = "start"
  /\ \E pair \in Inputs : left = pair[1] /\ right = pair[2]
  /\ starter = None /\ target = None
  /\ m = EmptyMap
  /\ len_limit = 0
  /\ new_words = <<>>
  /\ it = 0
  /\ path = <<>>
  /\ curr = None
  /\ logged = <<>>
  /\ OpInitIdle

Next == Panic \/ Seed \/ Expand \/ Walk \/ Log

Spec == Init /\ [][Next]_vars

\* ------------------------------------------------------------------ operator runs

\* A run of the Word methods on their own: Word::new on a string, then up to
\* MaxCalls - 1 further calls, each on the word the calls before it produced.

MaxCalls == 3

\* The lengths of the input strings: one and two letters, the six positions
\* shifts covers and one more, and the twelve letters a u64 holds.
OpLens == {1, 2, 6, 7, BITS \div FIELD}

\* The step between neighbouring letters of an input string: 0 gives a word of
\* one repeated letter, 1 a run of the alphabet.
OpStrides == {0, 1}

\* The letters an input string starts with, as offsets from 'a': 'a', 'p', 'z'.
OpStarts == {0, 15, 25}

\* The string of n letters from offset c on, k letters apart, wrapping after 'z'.
Str(n, c, k) == [i \in 1..n |-> ByteA + ((c + k * (i - 1)) % 26)]

OpStrings == {Str(n, c, k) : n \in OpLens, c \in OpStarts, k \in OpStrides}

SearchIdle == UNCHANGED searchVars

OpInit ==
  /\ pc = "ops"
  /\ left = <<>> /\ right = <<>>
  /\ starter = None /\ target = None
  /\ m = EmptyMap
  /\ len_limit = 0
  /\ new_words = <<>>
  /\ it = 0
  /\ path = <<>>
  /\ curr = None
  /\ logged = <<>>
  /\ ostr \in OpStrings
  /\ x = None
  /\ calls = <<>>

Call(name, a, l, o) == [op |-> name, arg |-> a, lim |-> l, out |-> o]

\* The words of an array of Option<Word>.
SomeWords(arr) == {arr[i][1] : i \in {j \in 1..Len(arr) : arr[j] # None}}

OpNew ==
  /\ calls = <<>>
  /\ ~new_panics(ostr)
  /\ x' = Some(Word_new(ostr))
  /\ calls' = <<Call("new", None, 0, Some(Word_new(ostr)))>>
  /\ UNCHANGED ostr
  /\ SearchIdle

CanCall == x # None /\ x # Some(RawPanic) /\ Len(calls) < MaxCalls

OpFmt ==
  /\ CanCall
  /\ calls' = Append(calls, Call("fmt", x, 0, fmt(x[1])))
  /\ UNCHANGED <<ostr, x>>
  /\ SearchIdle

OpLen ==
  /\ CanCall
  /\ calls' = Append(calls, Call("len", x, 0, len(x[1])))
  /\ UNCHANGED <<ostr, x>>
  /\ SearchIdle

OpDuplFirst ==
  /\ CanCall
  /\ \E l \in 1..(BITS \div FIELD) :
       LET r == dupl_first(x[1], l)
       IN  /\ calls' = Append(calls, Call("dupl_first", x, l, r))
           /\ x' = IF r = None THEN x ELSE r
  /\ UNCHANGED ostr
  /\ SearchIdle

OpPop ==
  /\ CanCall
  /\ LET r == pop(x[1])
     IN  /\ calls' = Append(calls, Call("pop", x, 0, r))
         /\ x' = IF r = None THEN x ELSE r
  /\ UNCHANGED ostr
  /\ SearchIdle

OpRotate ==
  /\ CanCall
  /\ LET r == rotate(x[1])
     IN  /\ calls' = Append(calls, Call("rotate", x, 0, r))
         /\ x' \in IF SomeWords(r) = {} THEN {x} ELSE {Some(w) : w \in SomeWords(r)}
  /\ UNCHANGED ostr
  /\ SearchIdle

OpShifts ==
  /\ CanCall
  /\ LET r == shifts(x[1])
     IN  /\ calls' = Append(calls, Call("shifts", x, 0, r))
         /\ x' \in IF SomeWords(r) = {} THEN {x} ELSE {Some(w) : w \in SomeWords(r)}
  /\ UNCHANGED ostr
  /\ SearchIdle

OpNext == OpNew \/ OpFmt \/ OpLen \/ OpDuplFirst \/ OpPop \/ OpRotate \/ OpShifts

OpSpec == OpInit /\ [][OpNext]_vars

\* ------------------------------------------------------------------ both

\* The searches and the operator runs together: a behaviour is one search of
\* print_path or one run of the Word methods.
AnyInit == Init \/ OpInit

AnyNext == Next \/ OpNext

AnySpec == AnyInit /\ [][AnyNext]_vars

\* ------------------------------------------------------------------ claims

\* A string the codec must reject: empty, a byte outside 'a'..'z', or more
\* than twelve letters.
InvalidString(str) ==
  \/ Len(str) = 0
  \/ Len(str) > 12
  \/ \E i \in 1..Len(str) : str[i] \notin ByteA..ByteZ

\* The search has ended with the target in the visited map.
Found == pc = "done" /\ target \in DOMAIN m

\* The words one operator application away from w.
Neighbours(w) == SomeWords(results(w, len_limit))

\* The words reached from the set seen in at most n more applications, the
\* words of frontier being the ones not yet expanded.
RECURSIVE Reach(_, _, _)
Reach(seen, frontier, n) ==
  IF n <= 0 \/ frontier = {} THEN seen
  ELSE LET nxt == UNION {Neighbours(w) : w \in frontier} \ seen
       IN  Reach(seen \cup nxt, nxt, n - 1)

\* The words at most n operator applications from w; none for n < 0.
Within(w, n) == IF n < 0 THEN {} ELSE Reach({w}, {w}, n)

\* The level at which the target entered the visited map: 0 for the seed,
\* otherwise the iteration that ended the loop.
InsertLevel == IF target = starter THEN 0 ELSE it

\* C1: when the target is found, the steps of the logged path number the level
\* at which the target entered the visited map, and no shorter sequence of
\* operator applications leads from the start word to the target.
C1_BfsMinimality ==
  Found =>
    /\ Len(path) - 1 = InsertLevel
    /\ target \notin Within(starter, Len(path) - 2)

\* C2: a found path starts with the start word, ends with the target, and each
\* word of it is one operator application from the word before.
C2_PathValid ==
  Found =>
    /\ path[1] = starter
    /\ path[Len(path)] = target
    /\ \A i \in 1..(Len(path) - 1) : path[i + 1] \in Neighbours(path[i])

\* C3: with the start equal to the target the result is the one-element path
\* of the start word, and no expansion level has been run.
C3_TrivialPath ==
  (pc = "done" /\ starter = target) =>
    /\ logged = <<1, <<starter>>>>
    /\ DOMAIN m = {starter}

\* C6: with an invalid start or target string the run never gets past the
\* encoding: it is at its start or has panicked, and there is no visited map,
\* no frontier, no path and no logged result.
C6_ConfigErrorsFailFast ==
  (InvalidString(left) \/ InvalidString(right)) =>
    /\ pc \in {"start", "panicked"}
    /\ m = EmptyMap /\ new_words = <<>> /\ it = 0
    /\ path = <<>> /\ logged = <<>>

C6_Witness ==
  /\ pc = "panicked"
  /\ ~InvalidString(left)
  /\ Len(right) = 13 /\ \A i \in 1..13 : right[i] \in ByteA..ByteZ

\* The call number n of an operator run.
IsCall(n, name) == n \in 1..Len(calls) /\ calls[n].op = name

\* The latest call of an operator run is a call of name.  Every call of a run
\* is the latest call of the state it led to, so a property of the latest
\* call in every reachable state is a property of every call.
Last == calls[Len(calls)]
LastIs(name) == IsCall(Len(calls), name)

\* The letters of a word by the layout of the encoding: the non-zero 5-bit
\* fields from the least significant one up to the first zero field, field
\* value 1 for 'a' up to 26 for 'z'.
Letters(w) ==
  LET n == Cardinality({i \in Digits : \A j \in 1..i : w[j] # 0})
  IN  [i \in 1..n |-> ByteA + w[i] - 1]

\* C7: decoding the encoding of a valid string gives the string back.
C7_RoundTrip ==
  (IsCall(1, "new") /\ IsCall(2, "fmt")) => calls[2].out = ostr

C7_Witness == IsCall(1, "new") /\ IsCall(2, "fmt") /\ Len(ostr) = 12 /\ ostr[1] # ostr[2]

\* C8: dupl_first returns nothing exactly when the word has len_limit letters
\* or more; otherwise it returns the word with a copy of its first letter put
\* in front, the letters after it unchanged.
C8_DuplFirst ==
  LastIs("dupl_first") =>
    \A s \in {Letters(Last.arg[1])} :
      /\ (Last.out = None) <=> (Len(s) >= Last.lim)
      /\ Last.out # None =>
           \A t \in {Letters(Last.out[1])} : t = <<s[1]>> \o s /\ Len(t) = Len(s) + 1

C8_Witness ==
  /\ LastIs("dupl_first") /\ Last.out # None
  /\ Len(Letters(Last.out[1])) = 12
  /\ Letters(Last.arg[1])[1] # Letters(Last.arg[1])[2]

\* C9: below the cap dupl_first returns a word, and pop of that word is the
\* word dupl_first was given; pop returns nothing exactly on one-letter words.
C9_PopDuplInverse ==
  /\ (LastIs("dupl_first") /\ Len(Letters(Last.arg[1])) < Last.lim) => Last.out # None
  /\ LastIs("pop") =>
       /\ (Last.out = None) <=> (Len(Letters(Last.arg[1])) = 1)
       /\ (IsCall(Len(calls) - 1, "dupl_first") /\ calls[Len(calls) - 1].out # None) =>
            Last.out = calls[Len(calls) - 1].arg

C9_Witness ==
  /\ LastIs("pop")
  /\ IsCall(Len(calls) - 1, "dupl_first") /\ calls[Len(calls) - 1].out # None
  /\ Len(Letters(Last.out[1])) >= 7

\* The letter after b and the letter before b, wrapping between 'z' and 'a'.
Inc(b) == IF b = ByteZ THEN ByteA ELSE b + 1
Dec(b) == IF b = ByteA THEN ByteZ ELSE b - 1

\* Slot j of the array arr holds a word whose letters are t, and t differs from s.
Holds(arr, j, t, s) ==
  j \in 1..Len(arr) /\ arr[j] # None /\ Letters(arr[j][1]) = t /\ t # s

\* shifts, called on the word of letters s, answered arr for position p
\* (1-based): the increment neighbour in slot p, the decrement neighbour in
\* slot p + 6, both different from s.
ShiftedAt(arr, s, p) ==
  /\ Holds(arr, p, [s EXCEPT ![p] = Inc(s[p])], s)
  /\ Holds(arr, p + 6, [s EXCEPT ![p] = Dec(s[p])], s)

\* C10, as claimed: every occupied position of the word has its two
\* neighbours in the slots p and p + 6, and the slots of the other positions
\* are empty.
C10_ShiftsAllPositions ==
  LastIs("shifts") =>
    \A s \in {Letters(Last.arg[1])} :
      /\ Len(Last.out) = 12
      /\ \A p \in 1..Len(s) : ShiftedAt(Last.out, s, p)
      /\ \A p \in 1..6 : p > Len(s) => Last.out[p] = None /\ Last.out[p + 6] = None

\* C10, amended: the same for the first six positions of the word only; a
\* seventh or later letter has no slot and is never shifted.
C10_ShiftsFirstSix ==
  LastIs("shifts") =>
    \A s \in {Letters(Last.arg[1])} :
      /\ Len(Last.out) = 12
      /\ \A p \in 1..6 :
           IF p <= Len(s) THEN ShiftedAt(Last.out, s, p)
           ELSE Last.out[p] = None /\ Last.out[p + 6] = None

C10_Witness ==
  /\ LastIs("shifts")
  /\ Len(Letters(Last.arg[1])) >= 7
  /\ Letters(Last.arg[1])[1] = ByteZ
  /\ Last.out[6] # None

\* C11: rotate returns two empty results on a one-letter word; on a longer word
\* it returns the word with its first letter moved to the end, then the word
\* with its last letter moved to the front, both as long as the word.
C11_Rotate ==
  LastIs("rotate") =>
    \A s \in {Letters(Last.arg[1])} :
      /\ Len(Last.out) = 2
      /\ IF Len(s) = 1 THEN Last.out = <<None, None>>
         ELSE /\ Last.out[1] # None /\ Last.out[2] # None
              /\ Letters(Last.out[1][1]) = Tail(s) \o <<s[1]>>
              /\ Letters(Last.out[2][1]) = <<s[Len(s)]>> \o SubSeq(s, 1, Len(s) - 1)

C11_Witness ==
  /\ LastIs("rotate")
  /\ Len(Letters(Last.arg[1])) = 12
  /\ Last.out[1] # None /\ Last.out[2] # None /\ Last.out[1] # Last.out[2]
  /\ Letters(Last.arg[1])[12] = ByteZ

\* C12: on a word of two letters or more, the right rotation of the left
\* rotation and the left rotation of the right rotation are the word itself.
C12_RotateInvolution ==
  (LastIs("rotate") /\ IsCall(Len(calls) - 1, "rotate")) =>
    \A prev \in {calls[Len(calls) - 1]} :
      Len(Letters(prev.arg[1])) >= 2 =>
        /\ Last.arg = prev.out[1] => Last.out[2] = prev.arg
        /\ Last.arg = prev.out[2] => Last.out[1] = prev.arg

C12_Witness ==
  /\ LastIs("rotate") /\ IsCall(Len(calls) - 1, "rotate")
  /\ Len(Letters(Last.arg[1])) = 12
  /\ Last.arg = calls[Len(calls) - 1].out[2]
  /\ Last.arg # calls[Len(calls) - 1].out[1]
  /\ Last.out[1] = calls[Len(calls) - 1].arg

\* C13: the length of a word is its number of letters; the length of the
\* encoding of a valid string is the length of the string.
C13_Length ==
  LastIs("len") =>
    /\ Last.out = Len(Letters(Last.arg[1]))
    /\ IsCall(Len(calls) - 1, "new") => Last.out = Len(ostr)

C13_Witness ==
  /\ LastIs("len") /\ IsCall(Len(calls) - 1, "new")
  /\ Len(ostr) = 12 /\ ostr[12] = ByteA
  /\ Last.out = 12

\* The words of a frontier.
Words(seq) == {seq[i] : i \in 1..Len(seq)}

\* The expansion iteration taken by a step that did not panic.
ExpandStep == pc = "expand" /\ pc' # "panicked"

\* The search is past the seeding of the visited map.
Seeded == pc \in {"expand", "walk", "log", "done"}

\* The first index of the word w in the frontier seq.
PosIn(seq, w) == CHOOSE i \in 1..Len(seq) : seq[i] = w /\ \A j \in 1..(i - 1) : seq[j] # w

\* C14: a step of the search removes no entry of the visited map and changes
\* no predecessor; a word an expansion iteration inserts keeps the predecessor
\* of its first discovery, the earliest word of the frontier that leads to it;
\* the start word is its own predecessor for the whole search.
C14_FirstDiscoveryWins ==
  /\ [][/\ \A w \in DOMAIN m : w \in DOMAIN m' /\ m'[w] = m[w]
        /\ ExpandStep =>
             \A i \in 1..Len(new_words) :
               \A w \in Neighbours(new_words[i]) \ DOMAIN m :
                 /\ w \in DOMAIN m'
                 /\ m'[w] \in Words(new_words)
                 /\ m'[w] = new_words[i] \/ PosIn(new_words, m'[w]) < i]_vars
  /\ [](Seeded => starter \in DOMAIN m /\ m[starter] = starter)

\* A search of five levels or more in which an expanded word other than the
\* start word leads back to the start word, and a word of the last frontier is
\* a result of an expanded word that is not its recorded predecessor.
C14_Witness ==
  /\ pc = "walk" /\ it >= 5
  /\ m[starter] = starter
  /\ \E w \in DOMAIN m \ Words(new_words) : w # starter /\ starter \in Neighbours(w)
  /\ \E w \in Words(new_words) :
       \E k \in DOMAIN m \ Words(new_words) : k # m[w] /\ w \in Neighbours(k)

\* The words at operator distance at most n from the start word (seen) and at
\* distance exactly n (level), from those at most n - steps away.
RECURSIVE Ball(_, _, _)
Ball(seen, level, steps) ==
  IF steps <= 0 THEN [seen |-> seen, level |-> level]
  ELSE LET nxt == UNION {Neighbours(w) : w \in level} \ seen
       IN  Ball(seen \cup nxt, nxt, steps - 1)

\* The words at distance at most n and exactly n from the start word.
Distance(n) == Ball({starter}, {starter}, n)

\* C15: iteration 1 of the expansion starts with the start word alone, the
\* word at distance 0, as the frontier and as the only key of the visited
\* map.  An iteration inserts exactly the words one application from a word
\* of its frontier that are not yet in the map, each with a word of that
\* frontier as its predecessor, and leaves them as the next frontier: with the
\* frontier at distance d - 1 and the map at distance at most d - 1, these are
\* the words at distance d.  The next iteration, if any, is iteration d + 1;
\* when the loop ends after iteration d, the map holds the words at distance
\* at most d from the start word and the frontier the words at distance d.
C15_LevelOrder ==
  [][ExpandStep =>
       /\ it = 1 => Words(new_words) = {starter} /\ DOMAIN m = {starter}
       /\ \A nxt \in {Ball(DOMAIN m, Words(new_words), 1).level} :
            /\ DOMAIN m' = DOMAIN m \cup nxt
            /\ Words(new_words') = nxt
            /\ \A w \in nxt : m'[w] \in Words(new_words) /\ w \in Neighbours(m'[w])
       /\ pc' = "expand" => it' = it + 1
       /\ pc' = "walk" =>
            \A b \in {Distance(it)} :
              DOMAIN m' = b.seen /\ Words(new_words') = b.level]_vars

\* The tenth iteration or a later one has run, from a frontier of several
\* words, and has inserted words.
C15_Witness ==
  /\ pc = "expand" /\ it >= 11
  /\ Len(new_words) >= 2
  /\ \E w \in Words(new_words) : m[w] # starter /\ m[m[w]] # m[w]

\* C17: the cap is the longer of the two string lengths, and every word of the
\* visited map and of the frontier has between one letter and that many.
C17_LengthCap ==
  Seeded =>
    /\ len_limit = Max(Len(left), Len(right))
    /\ \A w \in DOMAIN m \cup Words(new_words) :
         Len(Letters(w)) >= 1 /\ Len(Letters(w)) <= len_limit /\ len(w) <= len_limit

\* A search of several levels whose cap comes from the target alone: the map
\* holds words of one letter and words as long as the cap, which dupl_first
\* did not lengthen further.
C17_Witness ==
  /\ pc = "walk" /\ it >= 5
  /\ Len(left) = 1 /\ len_limit = 2
  /\ \E w \in DOMAIN m : Len(Letters(w)) = len_limit /\ w \in Words(new_words)
  /\ \E w \in DOMAIN m : Len(Letters(w)) = 1 /\ w # starter

\* A well-formed word: a u64 whose fields 1..n hold values in 1..26, for some
\* n in 1..12, with every bit above them zero.
WellFormed(w) ==
  /\ w \in U64
  /\ \E n \in 1..(BITS \div FIELD) :
       \A i \in Digits : IF i <= n THEN w[i] \in 1..26 ELSE w[i] = 0

\* The words an operator call returned.
Returned(call) ==
  IF call.op \in {"new", "dupl_first", "pop"} THEN SomeWords(<<call.out>>)
  ELSE IF call.op \in {"shifts", "rotate"} THEN SomeWords(call.out)
  ELSE {}

\* C18: every word an operator returns in a run of operators on the encoding
\* of a valid string is well-formed, and so is every word of the visited map
\* and of the frontier of a search; a search panics only on an invalid string.
C18_WellFormed ==
  /\ pc = "ops" =>
       /\ x # None => WellFormed(x[1])
       /\ calls # <<>> => \A w \in Returned(Last) : WellFormed(w)
  /\ Seeded => \A w \in DOMAIN m \cup Words(new_words) : WellFormed(w)
  /\ pc = "panicked" => InvalidString(left) \/ InvalidString(right)

\* shifts on a 12-letter word that starts with 'z', itself a rotation, has
\* returned its 12 words.
C18_Witness ==
  /\ pc = "ops" /\ Len(calls) = 3
  /\ calls[2].op = "rotate" /\ LastIs("shifts")
  /\ Len(Letters(Last.arg[1])) = 12 /\ Letters(Last.arg[1])[1] = ByteZ
  /\ Cardinality(Returned(Last)) = 12

\* No word occurs twice in the sequence.
NoRepeat(seq) == \A i, j \in 1..Len(seq) : seq[i] = seq[j] => i = j

\* C20: the frontier holds no word twice and only keys of the visited map; the
\* frontier an expansion iteration leaves is the set of the words the
\* iteration inserted into the map, so no word of an earlier level is in it.
C20_FrontierConsistency ==
  /\ [](Seeded => NoRepeat(new_words) /\ Words(new_words) \subseteq DOMAIN m)
  /\ [][ExpandStep =>
          /\ Words(new_words') = DOMAIN m' \ DOMAIN m
          /\ Words(new_words') \cap (DOMAIN m \cup {starter}) = {}]_vars

\* After five iterations or more the frontier has ten words or more, and a
\* word that produced one of them also produced a word that is not in the
\* frontier.
C20_Witness ==
  /\ pc = "expand" /\ it >= 6
  /\ Len(new_words) >= 10
  /\ \E w \in Words(new_words) :
       \E u \in Neighbours(m[w]) : u \in DOMAIN m /\ u \notin Words(new_words)

====
